---- MODULE Spec2Model ----
(***************************************************************************)
(* A model of the RBZ rates pipeline: the remote synchronizer              *)
(* (lib/mongo.py), the run controller (lib/scraper.py) and the local and   *)
(* remote stores they write to.                                            *)
(*                                                                         *)
(* Dates are day numbers 1..MaxDate.  A Python dict is a function whose    *)
(* DOMAIN is the set of keys present; a missing dict (None) and the empty  *)
(* dict are both the empty function, as both are falsy in Python.  Prices  *)
(* are small integers; a ratio rounded to 4 decimals is an integer number  *)
(* of ten-thousandths.                                                     *)
(***************************************************************************)
EXTENDS Integers, Sequences, FiniteSets, TLC

\* ------------------------------------------------------------------ bounds
MaxDate == 2
MaxDocs == 3
MaxDay == 4
MaxRuns == 2
MaxKeys == 3

\* The rate dates the publisher's page may show.
Dates == 1..MaxDate

\* ------------------------------------------------------- Python dictionaries
\* Python's None, the value dict.get returns for a missing key.
None == -99

NoDict == [k \in {} |-> 0]

Get(d, k) == IF k \in DOMAIN d THEN d[k] ELSE None

Put(d, k, v) == [x \in DOMAIN d \cup {k} |-> IF x = k THEN v ELSE d[x]]

\* bool(d) of a dict or None.
NonEmpty(d) == DOMAIN d # {}

\* bool(v) of an optional number: None and 0 are falsy.
Truthy(v) == v # None /\ v # 0

\* ------------------------------------------------------------------ state
VARIABLES
    remote,          \* the fx-rates collection: the documents, in insertion order
    pipeline_ids,    \* the _id of every document inserted by update_fx_rates
    lastSync,        \* the last update_fx_rates call: arguments, record read, result
    inflight,        \* overlapping invocations: each one's place in update_fx_rates
    today,           \* the current date in Harare
    exchange_tbl,    \* table exchange_rates: its rows
    gold_tbl,        \* table gold_rates: its rows
    scrape_runs,     \* table scrape_runs: the rows, in insertion order
    holiday_checked, \* the dates marked as already asked of the holiday oracle
    public_holidays, \* table public_holidays: the cached holiday dates
    lastRun,         \* the last invocation of run(): arguments, steps taken, result
    lastExtract,     \* the last _scrape_from_webpage call: what the page held, result
    redis,           \* the keys held by the Redis cache
    lastInvalidate,  \* the last invalidate_for_date call: target, requests, result
    lastRelevant,    \* the last _is_date_relevant call: key, target date, answer
    lastUpsert,      \* the last save_exchange_rates / save_gold_rates call
    lastExchangeDom, \* the last _extract_exchange_rates_dom call: the page, result
    lastGoldDom,     \* the last gold extraction, from the page or the PDF, and its result
    session,         \* self._browser, self._playwright, and the processes behind them
    lastWeb,         \* the last _scrape_from_webpage call: what raised, how it ended
    lastHoliday      \* the last is_public_holiday call, and the dates answered true so far

syncVars == <<remote, pipeline_ids, lastSync>>

localVars == <<today, exchange_tbl, gold_tbl, scrape_runs, holiday_checked,
               public_holidays, lastRun>>

auxVars == <<lastExtract, redis, lastInvalidate, lastRelevant, lastUpsert>>

\* What is recorded of the calls of the row extractions, the browser and
\* the holiday oracle.
domVars == <<lastExchangeDom, lastGoldDom, session, lastWeb, lastHoliday>>

vars == <<remote, pipeline_ids, lastSync, inflight, today, exchange_tbl, gold_tbl,
          scrape_runs, holiday_checked, public_holidays, lastRun, lastExtract,
          redis, lastInvalidate, lastRelevant, lastUpsert, lastExchangeDom, lastGoldDom,
          session, lastWeb, lastHoliday>>

\* A snapshot written by another producer (or by an earlier history): every
\* field present, including one this pipeline does not own.
ForeignDoc(d) ==
    [k \in {"_id", "Date", "ZiG_Bid", "ZiG_Ask", "ZiG_Mid", "Gold", "eGold", "Foreign"} |->
        CASE k = "_id" -> 1
          [] k = "Date" -> d
          [] k = "ZiG_Bid" -> 7
          [] k = "ZiG_Ask" -> 9
          [] k = "ZiG_Mid" -> 8
          [] k = "Gold" -> 11
          [] k = "eGold" -> 12
          [] OTHER -> 13]

InitialCollections == {<< >>} \cup {<<ForeignDoc(d)>> : d \in Dates}

NoCall == [ex |-> NoDict, gold |-> NoDict, latest |-> NoDict,
           ok |-> FALSE, why |-> "none"]

\* ------------------------------------------------------------- quotations
ExchangeValues ==
    {[k \in {"bid", "ask", "avg"} |-> CASE k = "bid" -> 1 [] k = "ask" -> 3 [] OTHER -> 2]}

\* An exchange quotation: with or without a rate_date.
ExchangeQuotes ==
    ExchangeValues \cup {Put(v, "rate_date", d) : v \in ExchangeValues, d \in Dates}

\* A gold quotation: source always set, the other keys present or not.
GoldQuote(d, zwg, usd, dt_zwg, dt_usd) ==
    LET all == [k \in {"source", "rate_date", "zwg", "usd",
                       "digital_token_zwg", "digital_token_usd"} |->
                  CASE k = "source" -> 1
                    [] k = "rate_date" -> d
                    [] k = "zwg" -> zwg
                    [] k = "usd" -> usd
                    [] k = "digital_token_zwg" -> dt_zwg
                    [] OTHER -> dt_usd]
    IN  [k \in {x \in DOMAIN all : all[x] # None} |-> all[k]]

\* ------------------------------------------------------------ synchronizer
\* round(num / den, 4) for den > 0, in ten-thousandths, ties to even.
Round4(num, den) ==
    LET n == num * 10000
        q == n \div den
        r == n % den
    IN  IF 2 * r < den THEN q
        ELSE IF 2 * r > den THEN q + 1
        ELSE IF q % 2 = 0 THEN q ELSE q + 1

MaxOf(S) == CHOOSE m \in S : \A x \in S : x <= m

\* find_one(sort=[("Date", DESCENDING)]): a document of maximum Date, any of
\* them if several share it; None if the collection is empty or the read
\* raises (the handler swallows the error).
get_latest_record(coll, read_ok) ==
    IF ~read_ok \/ Len(coll) = 0 THEN {NoDict}
    ELSE LET top == MaxOf({coll[i]["Date"] : i \in 1..Len(coll)})
         IN  {coll[i] : i \in {j \in 1..Len(coll) : coll[j]["Date"] = top}}

\* Copy all fields except _id.
carry_forward(latest) == [k \in DOMAIN latest \ {"_id"} |-> latest[k]]

set_exchange(rec, exchange_rates, exchange_date) ==
    Put(Put(Put(Put(rec, "Date", exchange_date),
                "ZiG_Bid", Get(exchange_rates, "bid")),
            "ZiG_Ask", Get(exchange_rates, "ask")),
        "ZiG_Mid", Get(exchange_rates, "avg"))

\* A variant that clears the field when the ratio cannot be computed.
set_ratio_clearing(rec, field, num, den) ==
    IF Truthy(num) /\ Truthy(den) /\ den > 0
    THEN Put(rec, field, Round4(num, den))
    ELSE Put(rec, field, None)

set_ratio(rec, field, num, den) ==
    IF Truthy(num) /\ Truthy(den) /\ den > 0
    THEN Put(rec, field, Round4(num, den))
    ELSE rec

\* A variant that takes any gold quotation, whatever its date.
gold_date_ignored(gold_rates, exchange_date) == NonEmpty(gold_rates)

gold_date_matches(gold_rates, exchange_date) ==
    /\ NonEmpty(gold_rates)
    /\ Get(gold_rates, "rate_date") # None
    /\ Get(gold_rates, "rate_date") = exchange_date

set_gold(rec, gold_rates, exchange_date) ==
    IF gold_date_matches(gold_rates, exchange_date)
    THEN set_ratio(set_ratio(rec, "Gold", Get(gold_rates, "zwg"), Get(gold_rates, "usd")),
                   "eGold", Get(gold_rates, "digital_token_zwg"),
                   Get(gold_rates, "digital_token_usd"))
    ELSE rec

new_record(latest, exchange_rates, gold_rates) ==
    set_gold(set_exchange(carry_forward(latest), exchange_rates,
                          Get(exchange_rates, "rate_date")),
             gold_rates, Get(exchange_rates, "rate_date"))

already_updated(latest, exchange_date) ==
    NonEmpty(latest) /\ Get(latest, "Date") = exchange_date

\* A variant that writes over the newest document instead of adding one.
replace_newest(coll, rec) ==
    IF Len(coll) = 0 THEN Append(coll, Put(rec, "_id", 1))
    ELSE [coll EXCEPT ![Len(coll)] = Put(rec, "_id", Len(coll))]

insert_one(coll, rec) == Append(coll, Put(rec, "_id", Len(coll) + 1))

\* A variant that goes on without a connection.
update_fx_rates_unconnected(coll, exchange_rates, gold_rates, connect_ok, latest, insert_ok) ==
    IF ~NonEmpty(exchange_rates)
    THEN [ok |-> FALSE, coll |-> coll, why |-> "no_exchange"]
    ELSE IF Get(exchange_rates, "rate_date") = None
    THEN [ok |-> FALSE, coll |-> coll, why |-> "no_rate_date"]
    ELSE IF already_updated(latest, Get(exchange_rates, "rate_date"))
    THEN [ok |-> FALSE, coll |-> coll, why |-> "skipped"]
    ELSE [ok |-> TRUE,
          coll |-> insert_one(coll, new_record(latest, exchange_rates, gold_rates)),
          why |-> "inserted"]

\* update_fx_rates on collection coll: the value returned (ok), the collection
\* afterwards and the branch taken.  connect_ok, latest and insert_ok are what
\* the remote store answers.
update_fx_rates(coll, exchange_rates, gold_rates, connect_ok, latest, insert_ok) ==
    IF ~NonEmpty(exchange_rates)
    THEN [ok |-> FALSE, coll |-> coll, why |-> "no_exchange"]
    ELSE IF ~connect_ok
    THEN [ok |-> FALSE, coll |-> coll, why |-> "connect_failed"]
    ELSE IF Get(exchange_rates, "rate_date") = None
    THEN [ok |-> FALSE, coll |-> coll, why |-> "no_rate_date"]
    ELSE IF already_updated(latest, Get(exchange_rates, "rate_date"))
    THEN [ok |-> FALSE, coll |-> coll, why |-> "skipped"]
    ELSE IF ~insert_ok
    THEN [ok |-> FALSE, coll |-> coll, why |-> "write_failed"]
    ELSE [ok |-> TRUE,
          coll |-> insert_one(coll, new_record(latest, exchange_rates, gold_rates)),
          why |-> "inserted"]

\* What the remote store answers during one call: whether connect() succeeds,
\* whether find_one returns, whether insert_one is acknowledged.  After a
\* failed connect nothing else is asked.
RemoteAnswers ==
    {a \in [connect_ok : BOOLEAN, read_ok : BOOLEAN, insert_ok : BOOLEAN] :
        ~a.connect_ok => (~a.read_ok /\ ~a.insert_ok)}

AllOk == [connect_ok |-> TRUE, read_ok |-> TRUE, insert_ok |-> TRUE]

\* The record of a call in lastSync.
SyncRecord(exchange_rates, gold_rates, latest, r) ==
    [ex |-> exchange_rates, gold |-> gold_rates,
     latest |-> IF r.why \in {"skipped", "write_failed", "inserted"} THEN latest ELSE NoDict,
     ok |-> r.ok, why |-> r.why]

\* One call of the synchronizer against the shared collection.
Sync(exchange_rates, gold_rates, a) ==
    /\ Len(remote) < MaxDocs
    /\ \E latest \in get_latest_record(remote, a.read_ok) :
          LET r == update_fx_rates(remote, exchange_rates, gold_rates,
                                   a.connect_ok, latest, a.insert_ok)
          IN  /\ remote' = r.coll
              /\ pipeline_ids' = IF r.ok THEN pipeline_ids \cup {Len(r.coll)}
                                 ELSE pipeline_ids
              /\ lastSync' = SyncRecord(exchange_rates, gold_rates, latest, r)
    /\ UNCHANGED inflight
    /\ UNCHANGED <<localVars, auxVars>>
    /\ UNCHANGED domVars

\* Gold quotations for the call sequences: none, or a complete one for a date.
GoldQuotesFew ==
    {NoDict} \cup {GoldQuote(d, 2, 3, 1, 3) : d \in Dates}

\* Any caller (the scraper, manual_feed.py) calling the synchronizer.
SyncCall ==
    \E ex \in ExchangeQuotes \cup {NoDict}, gold \in GoldQuotesFew, a \in RemoteAnswers :
        Sync(ex, gold, a)

\* The same with a remote store that never fails.
SyncCallReliable ==
    \E ex \in ExchangeQuotes \cup {NoDict}, gold \in GoldQuotesFew : Sync(ex, gold, AllOk)

\* Prices a gold quotation may carry: absent, negative, zero, positive.
GoldPrices == {None, -1, 0, 2, 3}

GoldQuotesAll ==
    {NoDict} \cup
    {GoldQuote(d, zwg, usd, dt_zwg, dt_usd) :
        d \in Dates \cup {None}, zwg \in GoldPrices, usd \in GoldPrices,
        dt_zwg \in GoldPrices, dt_usd \in GoldPrices}

\* The first synchronizer call on a collection, with any gold quotation.
GoldSyncCall ==
    /\ lastSync = NoCall
    /\ \E ex \in ExchangeQuotes, gold \in GoldQuotesAll, a \in RemoteAnswers :
          Sync(ex, gold, a)

\* ------------------------------------------------- overlapping invocations
\* Two invocations of the pipeline, each a process of its own, against the
\* same collection.  Between the read of the latest record and insert_one a
\* process holds no lock: the other may take any of its steps.
Procs == {1, 2}

Idle == [pc |-> "idle", ex |-> NoDict, gold |-> NoDict, latest |-> NoDict]

\* update_fx_rates is entered with the quotations the invocation extracted.
EnterSync(p) ==
    /\ inflight[p].pc = "idle"
    /\ \E ex \in ExchangeQuotes, gold \in GoldQuotesFew :
          /\ Get(ex, "rate_date") # None
          /\ inflight' = [inflight EXCEPT ![p] = [pc |-> "read", ex |-> ex,
                                                   gold |-> gold, latest |-> NoDict]]
    /\ UNCHANGED syncVars
    /\ UNCHANGED <<localVars, auxVars>>
    /\ UNCHANGED domVars

\* latest = self._get_latest_record()
ReadLatest(p) ==
    /\ inflight[p].pc = "read"
    /\ \E latest \in get_latest_record(remote, TRUE) :
          inflight' = [inflight EXCEPT ![p].pc = "insert", ![p].latest = latest]
    /\ UNCHANGED syncVars
    /\ UNCHANGED <<localVars, auxVars>>
    /\ UNCHANGED domVars

\* The rest of the call: the equal-date check on the record read, then insert_one.
InsertSnapshot(p) ==
    /\ inflight[p].pc = "insert"
    /\ Len(remote) < MaxDocs
    /\ LET r == update_fx_rates(remote, inflight[p].ex, inflight[p].gold,
                                TRUE, inflight[p].latest, TRUE)
       IN  /\ remote' = r.coll
           /\ pipeline_ids' = IF r.ok THEN pipeline_ids \cup {Len(r.coll)}
                              ELSE pipeline_ids
           /\ lastSync' = SyncRecord(inflight[p].ex, inflight[p].gold,
                                     inflight[p].latest, r)
    /\ inflight' = [inflight EXCEPT ![p].pc = "done"]
    /\ UNCHANGED <<localVars, auxVars>>
    /\ UNCHANGED domVars

\* ------------------------------------------------------------ local store
\* A table is the sequence of its rows, in the order of their insertion.
\* SELECT 1 FROM ... WHERE rate_date = ?
has_successful_exchange_scrape(tbl, target_date) ==
    \E i \in 1..Len(tbl) : tbl[i].rate_date = target_date

has_successful_gold_scrape(tbl, target_date) ==
    \E i \in 1..Len(tbl) : tbl[i].rate_date = target_date

\* INSERT ... ON CONFLICT(rate_date) DO UPDATE SET column = excluded.column,
\* for every column of the row.
upsert(tbl, row) ==
    IF \E i \in 1..Len(tbl) : tbl[i].rate_date = row.rate_date
    THEN [i \in 1..Len(tbl) |-> IF tbl[i].rate_date = row.rate_date THEN row ELSE tbl[i]]
    ELSE Append(tbl, row)

save_exchange_rates(tbl, rate_date, bid, ask, avg, source) ==
    upsert(tbl, [rate_date |-> rate_date, bid |-> bid, ask |-> ask, avg |-> avg,
                 source |-> source])

\* A variant that keeps a column's earlier value when the new one is NULL.
save_gold_rates_coalesce(tbl, rate_date, usd, zwg, digital_token_usd, digital_token_zwg, source) ==
    LET old == {i \in 1..Len(tbl) : tbl[i].rate_date = rate_date}
        prior == IF old = {} THEN [usd |-> None, zwg |-> None, digital_token_usd |-> None,
                                   digital_token_zwg |-> None]
                 ELSE tbl[CHOOSE i \in old : TRUE]
        Co(new, was) == IF new = None THEN was ELSE new
    IN  upsert(tbl, [rate_date |-> rate_date, usd |-> Co(usd, prior.usd),
                     zwg |-> Co(zwg, prior.zwg),
                     digital_token_usd |-> Co(digital_token_usd, prior.digital_token_usd),
                     digital_token_zwg |-> Co(digital_token_zwg, prior.digital_token_zwg),
                     source |-> source])

save_gold_rates(tbl, rate_date, usd, zwg, digital_token_usd, digital_token_zwg, source) ==
    upsert(tbl, [rate_date |-> rate_date, usd |-> usd, zwg |-> zwg,
                 digital_token_usd |-> digital_token_usd,
                 digital_token_zwg |-> digital_token_zwg, source |-> source])

\* A variant that records one flag for both kinds.
log_scrape_run_one_flag(rows, run_date, gold_success, exchange_success) ==
    Append(rows, [run_date |-> run_date, gold_success |-> exchange_success,
                  exchange_success |-> exchange_success])

log_scrape_run(rows, run_date, gold_success, exchange_success) ==
    Append(rows, [run_date |-> run_date, gold_success |-> gold_success,
                  exchange_success |-> exchange_success])

\* --------------------------------------------------------- business-day gate
\* date.weekday(): Monday is 0, Saturday 5, Sunday 6.  Day 1 is a Wednesday.
Weekday(d) == (d + 1) % 7

\* The days the holiday oracle knows as public holidays: day 3, a Friday,
\* and day 4, the Saturday after it.
HolidayDates == {3, 4}

\* The oracle's answer for one date; the empty list when the lookup fails.
fetch_holiday_for_date(target_date, oracle_ok) ==
    IF oracle_ok /\ target_date \in HolidayDates THEN {target_date} ELSE {}

was_holiday_checked(checked, check_date) == check_date \in checked

mark_holiday_checked(checked, check_date) == checked \cup {check_date}

\* DELETE the year's rows, INSERT the given ones; every day is of one year.
cache_holidays(cached, holidays) == holidays

is_public_holiday(check_date, oracle_ok) ==
    IF was_holiday_checked(holiday_checked, check_date)
    THEN [ans |-> check_date \in public_holidays,
          checked |-> holiday_checked, cached |-> public_holidays]
    ELSE LET holidays == fetch_holiday_for_date(check_date, oracle_ok)
         IN  [ans |-> holidays # {},
              checked |-> mark_holiday_checked(holiday_checked, check_date),
              cached |-> IF holidays # {} THEN cache_holidays(public_holidays, holidays)
                         ELSE public_holidays]

\* A variant that takes only Sunday for the weekend.
is_business_day_sunday_only(check_date, oracle_ok) ==
    IF Weekday(check_date) >= 6
    THEN [ans |-> FALSE, checked |-> holiday_checked, cached |-> public_holidays]
    ELSE LET h == is_public_holiday(check_date, oracle_ok)
         IN  [ans |-> ~h.ans, checked |-> h.checked, cached |-> h.cached]

is_business_day(check_date, oracle_ok) ==
    IF Weekday(check_date) >= 5
    THEN [ans |-> FALSE, checked |-> holiday_checked, cached |-> public_holidays]
    ELSE LET h == is_public_holiday(check_date, oracle_ok)
         IN  [ans |-> ~h.ans, checked |-> h.checked, cached |-> h.cached]

\* ------------------------------------------------------------ run controller
Webpage == 1
Pdf == 2

\* What _scrape_from_webpage may return: (None, None) after an exception, or
\* each quotation found or not.
WebGoldQuotes == {GoldQuote(d, 2, 3, 1, 3) : d \in Dates}

WebpageResults == (ExchangeQuotes \cup {NoDict}) \X (WebGoldQuotes \cup {NoDict})

\* What _scrape_gold_from_pdf may return: nothing, or the two prices without
\* digital-token prices; here from a text in which no date was found, so that
\* the row is stored under today.
PdfResults ==
    {NoDict, Put(GoldQuote(None, 2, 3, None, None), "source", Pdf)}

\* q.get("rate_date", today.isoformat())
rate_date_or(q, day) == IF "rate_date" \in DOMAIN q THEN q["rate_date"] ELSE day

\* A variant in which force does not bypass the check.
already_captured_despite_force(force, day) ==
    /\ has_successful_gold_scrape(gold_tbl, day)
    /\ has_successful_exchange_scrape(exchange_tbl, day)

\* not force and both kinds already stored for today
already_captured(force, day) ==
    /\ ~force
    /\ has_successful_gold_scrape(gold_tbl, day)
    /\ has_successful_exchange_scrape(exchange_tbl, day)

\* A variant that notifies and invalidates whatever update_fx_rates returned.
after_sync_always(mongo_success) == <<"notify", "invalidate">>

\* The steps after update_fx_rates returned mongo_success.
after_sync(mongo_success) ==
    IF mongo_success THEN <<"notify", "invalidate">> ELSE << >>

\* status, exchange and gold are those of the result run() returns;
\* remote_up tells whether the remote store could be reached when asked, and
\* invalidated is the date handed to invalidate_for_date (None: not called).
NoRun == [status |-> "none", day |-> 0, force |-> FALSE, events |-> << >>,
          sync |-> "not_attempted", exchange |-> NoDict, gold |-> NoDict,
          remote_up |-> TRUE, invalidated |-> None]

\* The date scrape_rates hands to invalidate_for_date: its own today.
invalidation_date(day, exchange) == day

\* scrape_rates: extraction, local upserts, PDF fallback, synchronization,
\* notification and invalidation, run record.
scrape_rates(force, web, pdf, a, latest) ==
    LET exchange == web[1]
        gold_web == web[2]
        gold == IF NonEmpty(gold_web) THEN gold_web ELSE pdf
        exchange_saved ==
            IF NonEmpty(exchange)
            THEN save_exchange_rates(exchange_tbl, rate_date_or(exchange, today),
                                     exchange["bid"], exchange["ask"], exchange["avg"],
                                     Webpage)
            ELSE exchange_tbl
        gold_saved ==
            IF NonEmpty(gold_web)
            THEN save_gold_rates(gold_tbl, rate_date_or(gold_web, today),
                                 Get(gold_web, "usd"), Get(gold_web, "zwg"),
                                 Get(gold_web, "digital_token_usd"),
                                 Get(gold_web, "digital_token_zwg"), Webpage)
            ELSE IF NonEmpty(pdf)
            THEN save_gold_rates(gold_tbl, rate_date_or(pdf, today),
                                 Get(pdf, "usd"), Get(pdf, "zwg"), None, None, Pdf)
            ELSE gold_tbl
        r == IF NonEmpty(exchange)
             THEN update_fx_rates(remote, exchange, gold, a.connect_ok, latest, a.insert_ok)
             ELSE [ok |-> FALSE, coll |-> remote, why |-> "not_attempted"]
        events ==
            <<"extract">>
            \o (IF NonEmpty(exchange) THEN <<"save_exchange">> ELSE << >>)
            \o (IF NonEmpty(gold_web) THEN <<"save_gold">>
                ELSE <<"pdf">> \o (IF NonEmpty(pdf) THEN <<"save_gold">> ELSE << >>))
            \o (IF NonEmpty(exchange) THEN <<"sync">> \o after_sync(r.ok) ELSE << >>)
            \o <<"log_run">>
    IN  /\ exchange_tbl' = exchange_saved
        /\ gold_tbl' = gold_saved
        /\ remote' = r.coll
        /\ pipeline_ids' = IF r.ok THEN pipeline_ids \cup {Len(r.coll)} ELSE pipeline_ids
        /\ lastSync' = IF NonEmpty(exchange) THEN SyncRecord(exchange, gold, latest, r)
                       ELSE lastSync
        /\ scrape_runs' = log_scrape_run(scrape_runs, today, NonEmpty(gold),
                                         NonEmpty(exchange))
        /\ lastRun' = [status |-> "completed", day |-> today, force |-> force,
                       events |-> events, sync |-> r.why,
                       exchange |-> exchange, gold |-> gold,
                       remote_up |-> a.connect_ok,
                       invalidated |-> IF r.ok THEN invalidation_date(today, exchange)
                                       ELSE None]

\* The PDF is fetched only when the page gave no gold quotation.
PdfChoices(web) == IF NonEmpty(web[2]) THEN {NoDict} ELSE PdfResults

\* The remote store is asked only when there is an exchange quotation.
AnswerChoices(web) == IF NonEmpty(web[1]) THEN RemoteAnswers ELSE {AllOk}

\* One invocation of run(force).
Run ==
    /\ Len(scrape_runs) < MaxRuns
    /\ Len(remote) < MaxDocs
    /\ \E force \in BOOLEAN, oracle_ok \in BOOLEAN :
          LET gate == is_business_day(today, oracle_ok)
          IN  /\ holiday_checked' = gate.checked
              /\ public_holidays' = gate.cached
              /\ IF ~gate.ans
                 THEN /\ lastRun' = [status |-> "skipped", day |-> today, force |-> force,
                                     events |-> << >>, sync |-> "not_attempted",
                                     exchange |-> NoDict, gold |-> NoDict,
                                     remote_up |-> TRUE, invalidated |-> None]
                      /\ UNCHANGED <<exchange_tbl, gold_tbl, scrape_runs>>
                      /\ UNCHANGED syncVars
                 ELSE IF already_captured(force, today)
                 THEN /\ lastRun' = [status |-> "already_scraped", day |-> today,
                                     force |-> force, events |-> << >>,
                                     sync |-> "not_attempted",
                                     exchange |-> NoDict, gold |-> NoDict,
                                     remote_up |-> TRUE, invalidated |-> None]
                      /\ UNCHANGED <<exchange_tbl, gold_tbl, scrape_runs>>
                      /\ UNCHANGED syncVars
                 ELSE \E web \in WebpageResults :
                      \E pdf \in PdfChoices(web), a \in AnswerChoices(web) :
                      \E latest \in get_latest_record(remote, a.read_ok) :
                          scrape_rates(force, web, pdf, a, latest)
    /\ UNCHANGED <<today, inflight, auxVars>>
    /\ UNCHANGED domVars

\* Midnight in Harare.
NextDay ==
    /\ today < MaxDay
    /\ today' = today + 1
    /\ UNCHANGED <<exchange_tbl, gold_tbl, scrape_runs, holiday_checked,
                   public_holidays, lastRun, inflight, auxVars>>
    /\ UNCHANGED syncVars
    /\ UNCHANGED domVars

\* ---------------------------------------------------------------- extractor
\* The steps of _scrape_from_webpage at which a call may raise.  The loops
\* over the rows catch what a row raises; the calls on the page outside them
\* do not.
ExtractSteps == {"start", "goto", "exchange", "tab", "click", "gold", "close"}

\* The steps a call goes through: without the gold tab it returns before the
\* click and the gold rows.
steps_reached(tab_found) ==
    IF tab_found THEN ExtractSteps ELSE ExtractSteps \ {"click", "gold"}

\* _scrape_from_webpage: page_exchange and page_gold are what the two row
\* extractions find (NoDict when they return None), fail_at the step that
\* raises ("none": no step does).
scrape_from_webpage(page_exchange, tab_found, page_gold, fail_at) ==
    IF fail_at \in steps_reached(tab_found) THEN <<NoDict, NoDict>>
    ELSE IF ~tab_found THEN <<page_exchange, NoDict>>
    ELSE <<page_exchange, page_gold>>

NoExtract == [exchange |-> NoDict, tab_found |-> FALSE, gold |-> NoDict,
              fail_at |-> "never", result |-> <<NoDict, NoDict>>]

\* One call of _scrape_from_webpage.
Extract ==
    /\ \E page_exchange \in ExchangeQuotes \cup {NoDict}, tab_found \in BOOLEAN,
          page_gold \in WebGoldQuotes \cup {NoDict},
          fail_at \in ExtractSteps \cup {"none"} :
          lastExtract' = [exchange |-> page_exchange, tab_found |-> tab_found,
                          gold |-> page_gold, fail_at |-> fail_at,
                          result |-> scrape_from_webpage(page_exchange, tab_found,
                                                         page_gold, fail_at)]
    /\ UNCHANGED <<syncVars, localVars, inflight>>
    /\ UNCHANGED <<redis, lastInvalidate, lastRelevant, lastUpsert>>
    /\ UNCHANGED domVars

\* -------------------------------------------------------------------- cache
\* A cache key is the URL of a cached response: its path, a sequence of
\* pieces of text, and its query string, here the value given to each
\* parameter named in it (each named at most once).
\* A parameter's value is a date, a text that is no ISO date, or nothing.
Malformed == -1
Blank == -2

\* The dates a key may name: the rate dates, one day before and one after.
KeyDates == 0..(MaxDate + 1)

ParamValues == KeyDates \cup {Malformed, Blank}

ParamNames == {"day", "from", "to", "page"}

Queries == UNION {[names -> ParamValues] : names \in SUBSET ParamNames}

\* The default pattern, "*/api/rates/fx-rates".
CachePattern == "/api/rates/fx-rates"

Paths == {<<"cache:", CachePattern>>,
          <<"cache:", CachePattern, "/history">>,
          <<"cache:", "/api/rates/gold">>}

CacheKeys == [path : Paths, query : Queries]

\* parse_qs: the list of values of each parameter, parameters with a blank
\* value left out (keep_blank_values is False).
parse_qs(query) ==
    [n \in {m \in DOMAIN query : query[m] # Blank} |-> <<query[n]>>]

\* date.fromisoformat raises ValueError on a text that is no ISO date.
fromisoformat_raises(v) == v = Malformed

has_date_param(params) == \E k \in {"day", "from", "to"} : k \in DOMAIN params

\* Case 2: the day parameter parses and equals the target date.
day_matches(params, target_date) ==
    /\ "day" \in DOMAIN params
    /\ ~fromisoformat_raises(params["day"][1])
    /\ params["day"][1] = target_date

\* A variant whose bounds are exclusive.
range_matches_exclusive(params, target_date) ==
    /\ "from" \in DOMAIN params /\ "to" \in DOMAIN params
    /\ ~fromisoformat_raises(params["from"][1])
    /\ ~fromisoformat_raises(params["to"][1])
    /\ params["from"][1] < target_date
    /\ target_date < params["to"][1]

\* A variant that compares the two texts without parsing them.
range_matches_unparsed(params, target_date) ==
    /\ "from" \in DOMAIN params /\ "to" \in DOMAIN params
    /\ params["from"][1] <= target_date
    /\ target_date <= params["to"][1]

\* Case 3: from and to both present, both parse, the target date between them.
range_matches(params, target_date) ==
    /\ "from" \in DOMAIN params /\ "to" \in DOMAIN params
    /\ ~fromisoformat_raises(params["from"][1])
    /\ ~fromisoformat_raises(params["to"][1])
    /\ params["from"][1] <= target_date
    /\ target_date <= params["to"][1]

\* A variant that takes a key without date parameters as not relevant.
is_date_relevant_dated_only(url, target_date) ==
    LET params == parse_qs(url.query)
    IN  day_matches(params, target_date) \/ range_matches(params, target_date)

\* _is_date_relevant
is_date_relevant(url, target_date) ==
    LET params == parse_qs(url.query)
    IN  IF ~has_date_param(params) THEN TRUE
        ELSE IF day_matches(params, target_date) THEN TRUE
        ELSE IF range_matches(params, target_date) THEN TRUE
        ELSE FALSE

NoRelevant == [url |-> [path |-> << >>, query |-> NoDict], target_date |-> 0,
               answer |-> FALSE]

\* The first call of _is_date_relevant, for any key and any target date.
CheckRelevant ==
    /\ lastRelevant = NoRelevant
    /\ \E url \in CacheKeys, target_date \in Dates :
          lastRelevant' = [url |-> url, target_date |-> target_date,
                           answer |-> is_date_relevant(url, target_date)]
    /\ UNCHANGED <<syncVars, localVars, inflight>>
    /\ UNCHANGED <<lastExtract, redis, lastInvalidate, lastUpsert>>
    /\ UNCHANGED domVars

\* scan_iter(match=search_pattern), the search pattern being the pattern
\* followed by "*": the keys in which the pattern's text occurs.
glob_match(url) == \E i \in 1..Len(url.path) : url.path[i] = CachePattern

\* What Redis answers during one call: whether connect() succeeds, whether
\* the scan runs to its end, whether unlink returns, and, when unlink raises,
\* whether the server had removed the keys.
CacheAnswers ==
    {a \in [connect_ok : BOOLEAN, scan_ok : BOOLEAN, unlink_ok : BOOLEAN,
            applied : BOOLEAN] :
        /\ ~a.connect_ok => ~a.scan_ok
        /\ ~a.scan_ok => ~a.unlink_ok
        /\ a.unlink_ok => a.applied
        /\ ~a.scan_ok => ~a.applied}

\* A variant that unlinks every key the scan returns.
keys_to_delete_all_scanned(keys, target_date) == {k \in keys : glob_match(k)}

\* The keys the call collects in keys_to_delete.
keys_to_delete(keys, target_date) ==
    {k \in keys : glob_match(k) /\ is_date_relevant(k, target_date)}

\* invalidate_for_date on a cache holding keys: the value returned, the
\* unlink calls made (the keys given to each) and the keys held afterwards.
invalidate_for_date(keys, target_date, a) ==
    IF ~a.connect_ok \/ ~a.scan_ok
    THEN [count |-> 0, unlinks |-> << >>, keys |-> keys]
    ELSE LET del == keys_to_delete(keys, target_date)
         IN  IF del = {}
             THEN [count |-> 0, unlinks |-> << >>, keys |-> keys]
             ELSE [count |-> IF a.unlink_ok THEN Cardinality(del) ELSE 0,
                   unlinks |-> <<del>>,
                   keys |-> IF a.applied THEN keys \ del ELSE keys]

\* The requests the API server is known to cache.
StoredQueries ==
    {NoDict,
     [n \in {"day"} |-> 1],
     [n \in {"day"} |-> MaxDate],
     [n \in {"day"} |-> Malformed],
     [n \in {"from", "to"} |-> IF n = "from" THEN 1 ELSE MaxDate],
     [n \in {"page"} |-> 1]}

\* The keys the API server may hold: every such request of the rates
\* endpoint, and undated requests of the two other paths.
StoredKeys ==
    {[path |-> <<"cache:", CachePattern>>, query |-> q] : q \in StoredQueries}
    \cup {[path |-> p, query |-> NoDict] : p \in Paths}

\* The API server caches a response under its URL.
CachePut ==
    /\ Cardinality(redis) < MaxKeys
    /\ \E k \in StoredKeys \ redis : redis' = redis \cup {k}
    /\ UNCHANGED <<syncVars, localVars, inflight>>
    /\ UNCHANGED <<lastExtract, lastInvalidate, lastRelevant, lastUpsert>>
    /\ UNCHANGED domVars

NoInvalidate == [target_date |-> 0, answers |-> [connect_ok |-> FALSE, scan_ok |-> FALSE,
                                                 unlink_ok |-> FALSE, applied |-> FALSE],
                 count |-> 0, unlinks |-> << >>]

\* One call of invalidate_for_date.
Invalidate ==
    /\ \E target_date \in Dates, a \in CacheAnswers :
          LET r == invalidate_for_date(redis, target_date, a)
          IN  /\ redis' = r.keys
              /\ lastInvalidate' = [target_date |-> target_date, answers |-> a,
                                    count |-> r.count, unlinks |-> r.unlinks]
    /\ UNCHANGED <<syncVars, localVars, inflight>>
    /\ UNCHANGED <<lastExtract, lastRelevant, lastUpsert>>
    /\ UNCHANGED domVars

\* -------------------------------------------------------------- local upserts
\* The rows a caller may hand to save_exchange_rates.
ExchangeRows == {[bid |-> b, ask |-> 3, avg |-> 2] : b \in {1, 4}}

\* The values a caller may hand to save_gold_rates: the token prices given
\* (the page) or not (the PDF).
GoldRows ==
    {[usd |-> 3, zwg |-> 2, digital_token_usd |-> dt, digital_token_zwg |-> dt] :
        dt \in {None, 1}}

NoUpsert == [table |-> "none", row |-> NoDict, was |-> NoDict]

\* The row a table holds for a date before an upsert, if any.
row_of(tbl, d) ==
    IF \E i \in 1..Len(tbl) : tbl[i].rate_date = d
    THEN tbl[CHOOSE i \in 1..Len(tbl) : tbl[i].rate_date = d]
    ELSE NoDict

\* A call of save_exchange_rates.
SaveExchange ==
    /\ \E d \in Dates, v \in ExchangeRows :
          /\ exchange_tbl' = save_exchange_rates(exchange_tbl, d, v.bid, v.ask, v.avg,
                                                 Webpage)
          /\ lastUpsert' = [table |-> "exchange",
                            row |-> [rate_date |-> d, bid |-> v.bid, ask |-> v.ask,
                                     avg |-> v.avg, source |-> Webpage],
                            was |-> row_of(exchange_tbl, d)]
    /\ UNCHANGED <<syncVars, inflight, today, gold_tbl, scrape_runs, holiday_checked,
                   public_holidays, lastRun>>
    /\ UNCHANGED <<lastExtract, redis, lastInvalidate, lastRelevant>>
    /\ UNCHANGED domVars

\* A call of save_gold_rates.
SaveGold ==
    /\ \E d \in Dates, v \in GoldRows, source \in {Webpage, Pdf} :
          /\ gold_tbl' = save_gold_rates(gold_tbl, d, v.usd, v.zwg, v.digital_token_usd,
                                         v.digital_token_zwg, source)
          /\ lastUpsert' = [table |-> "gold",
                            row |-> [rate_date |-> d, usd |-> v.usd, zwg |-> v.zwg,
                                     digital_token_usd |-> v.digital_token_usd,
                                     digital_token_zwg |-> v.digital_token_zwg,
                                     source |-> source],
                            was |-> row_of(gold_tbl, d)]
    /\ UNCHANGED <<syncVars, inflight, today, exchange_tbl, scrape_runs, holiday_checked,
                   public_holidays, lastRun>>
    /\ UNCHANGED <<lastExtract, redis, lastInvalidate, lastRelevant>>
    /\ UNCHANGED domVars

\* ------------------------------------------------------- exchange rows
\* A cell whose text float() rejects.
NotANumber == -3

MaxRows == 2

\* The texts of the three cells after the first: numbers or not.
CellValues == {1, 2, NotANumber}

\* A table row of the page: whether it has at least four cells of which the
\* first names USD and ZWG, and the cells that follow the first.
PageRows == [named : BOOLEAN, cells : [1..3 -> CellValues]]

RECURSIVE SeqsUpTo(_, _)
SeqsUpTo(S, n) ==
    IF n = 0 THEN {<< >>}
    ELSE LET shorter == SeqsUpTo(S, n - 1)
         IN  shorter \cup {Append(q, x) : q \in {r \in shorter : Len(r) = n - 1}, x \in S}

\* The rows of a page, in document order.
Pages == SeqsUpTo(PageRows, MaxRows)

\* The body of the try block for one row: the assignments made to data
\* before float() raises, and whether the loop breaks after the row.
exchange_row(data, row) ==
    IF ~row.named THEN [data |-> data, break |-> FALSE]
    ELSE LET d0 == Put(data, "currency_pair", "USD/ZWG")
         IN  IF row.cells[1] = NotANumber THEN [data |-> d0, break |-> FALSE]
             ELSE LET d1 == Put(d0, "bid", row.cells[1])
                  IN  IF row.cells[2] = NotANumber THEN [data |-> d1, break |-> FALSE]
                      ELSE LET d2 == Put(d1, "ask", row.cells[2])
                           IN  IF row.cells[3] = NotANumber
                               THEN [data |-> d2, break |-> FALSE]
                               ELSE [data |-> Put(d2, "avg", row.cells[3]),
                                     break |-> TRUE]

\* The loop over the rows from row i on.
RECURSIVE exchange_rows(_, _, _)
exchange_rows(data, rows, i) ==
    IF i > Len(rows) THEN data
    ELSE LET r == exchange_row(data, rows[i])
         IN  IF r.break THEN r.data ELSE exchange_rows(r.data, rows, i + 1)

\* _extract_exchange_rates_dom: header_date is the date of the page's header
\* (None when the header shows none), rows the table rows.
extract_exchange_rates_dom(header_date, rows) ==
    LET data0 == IF header_date = None THEN NoDict
                 ELSE Put(NoDict, "rate_date", header_date)
        data == exchange_rows(data0, rows, 1)
    IN  IF "bid" \in DOMAIN data THEN data ELSE NoDict

NoExchangeDom == [header_date |-> None, rows |-> << >>, result |-> NoDict, called |-> FALSE]

\* One call of _extract_exchange_rates_dom.
ExtractExchangeDom ==
    /\ ~lastExchangeDom.called
    /\ \E header_date \in Dates \cup {None}, rows \in Pages :
          lastExchangeDom' = [header_date |-> header_date, rows |-> rows,
                              result |-> extract_exchange_rates_dom(header_date, rows),
                              called |-> TRUE]
    /\ UNCHANGED <<syncVars, localVars, inflight, auxVars>>
    /\ UNCHANGED <<lastGoldDom, session, lastWeb, lastHoliday>>

\* ----------------------------------------------------------- gold rows
\* A text that holds no digit, so that nothing is left of it to parse.
Empty == -4

\* What a price text holds: a number, no digit, or digits float() rejects.
PriceTexts == {3, Empty, NotANumber}

\* The per-currency keys of a gold quotation.
PriceKeys == {"usd", "zwg", "zar", "gbp", "eur"}

\* The labels of the currency rows: two of the currencies and another text.
GoldLabels == {"USD", "ZWG", "OTHER"}

\* currencies[label]
currency_key(label) == IF label = "USD" THEN "usd" ELSE "zwg"

\* The cells that follow the label of the digital-token row: the currency
\* each names and its price text.
TokenCells == [cur : {"USD", "ZIG"}, text : PriceTexts]

\* The rows of the gold tab: a currency row, or the digital-token row with
\* one or two cells after its label.
GoldPageRows ==
    [kind : {"currency"}, label : GoldLabels, text : PriceTexts]
    \cup [kind : {"token"}, cells : SeqsUpTo(TokenCells, 2) \ {<< >>}]

GoldPages == SeqsUpTo(GoldPageRows, MaxRows)

\* The loop over the cells of the digital-token row from cell i on: float()
\* raising ends the row and keeps what was assigned before.
RECURSIVE token_cells(_, _, _)
token_cells(data, cells, i) ==
    IF i > Len(cells) THEN data
    ELSE LET key == IF cells[i].cur = "USD" THEN "digital_token_usd"
                    ELSE "digital_token_zwg"
         IN  IF cells[i].text = NotANumber THEN data
             ELSE IF cells[i].text = Empty THEN token_cells(data, cells, i + 1)
             ELSE token_cells(Put(data, key, cells[i].text), cells, i + 1)

\* The body of the try block for one row of the gold tab.
gold_row(data, row) ==
    IF row.kind = "token" THEN token_cells(data, row.cells, 1)
    ELSE IF /\ row.label \in {"USD", "ZWG"}
            /\ currency_key(row.label) \notin DOMAIN data
            /\ row.text \notin {Empty, NotANumber}
         THEN Put(data, currency_key(row.label), row.text)
         ELSE data

RECURSIVE gold_rows(_, _, _)
gold_rows(data, rows, i) ==
    IF i > Len(rows) THEN data
    ELSE gold_rows(gold_row(data, rows[i]), rows, i + 1)

\* _extract_gold_rates_dom: header_date is the date of the tab's header (None
\* when it shows none), rows the table rows.
extract_gold_rates_dom(header_date, rows) ==
    LET data0 == IF header_date = None THEN NoDict
                 ELSE Put(NoDict, "rate_date", header_date)
    IN  gold_rows(data0, rows, 1)

\* The lines of the PDF that name a currency, each with the number found in
\* the four lines after it (None when none of them is a number).
PdfLines == [USD : {None, 3}, ZWG : {None, 2}]

\* _scrape_gold_from_pdf: fetched tells whether the response is a PDF,
\* pdf_date is the date found in its text (None when none is).
scrape_gold_from_pdf(fetched, pdf_date, lines) ==
    IF ~fetched THEN NoDict
    ELSE LET d0 == Put(Put(NoDict, "source", Pdf), "source_url", "url")
             d1 == IF pdf_date = None THEN d0 ELSE Put(d0, "rate_date", pdf_date)
             d2 == IF lines.USD = None THEN d1 ELSE Put(d1, "usd", lines.USD)
             d3 == IF lines.ZWG = None THEN d2 ELSE Put(d2, "zwg", lines.ZWG)
         IN  IF Cardinality(DOMAIN d3) > 2 THEN d3 ELSE NoDict

NoGoldDom == [path |-> "none", date |-> None, rows |-> << >>, result |-> NoDict]

\* One call of _extract_gold_rates_dom.
ExtractGoldDom ==
    /\ lastGoldDom.path = "none"
    /\ \E header_date \in Dates \cup {None}, rows \in GoldPages :
          lastGoldDom' = [path |-> "page", date |-> header_date, rows |-> rows,
                          result |-> extract_gold_rates_dom(header_date, rows)]
    /\ UNCHANGED <<syncVars, localVars, inflight, auxVars>>
    /\ UNCHANGED <<lastExchangeDom, session, lastWeb, lastHoliday>>

\* One call of _scrape_gold_from_pdf.
ExtractGoldPdf ==
    /\ lastGoldDom.path = "none"
    /\ \E fetched \in BOOLEAN, pdf_date \in Dates \cup {None}, lines \in PdfLines :
          lastGoldDom' = [path |-> "pdf", date |-> pdf_date, rows |-> <<lines>>,
                          result |-> scrape_gold_from_pdf(fetched, pdf_date, lines)]
    /\ UNCHANGED <<syncVars, localVars, inflight, auxVars>>
    /\ UNCHANGED <<lastExchangeDom, session, lastWeb, lastHoliday>>

\* -------------------------------------------------------- browser session
MaxCalls == 2

\* No browser and no driver: the scraper as constructed.
NoSession == [browser |-> FALSE, playwright |-> FALSE,
              browser_up |-> FALSE, driver_up |-> FALSE]

\* The steps inside the try block at which a call may raise: the two of
\* _start_browser and those on the page.
BodySteps == {"driver_start", "launch"} \cup (ExtractSteps \ {"start"})

\* The calls of _stop_browser that may raise.
TeardownSteps == {"browser_close", "driver_stop"}

\* _start_browser: nothing is done when a browser handle is held; otherwise
\* the driver is started and kept, then the browser launched and kept.
start_browser(s, fail_at) ==
    IF s.browser THEN s
    ELSE IF fail_at = "driver_start" THEN s
    ELSE LET started == [s EXCEPT !.playwright = TRUE, !.driver_up = TRUE]
         IN  IF fail_at = "launch" THEN started
             ELSE [started EXCEPT !.browser = TRUE, !.browser_up = TRUE]

\* _stop_browser: the browser is closed and its handle dropped, then the
\* driver stopped and its handle dropped; a call that raises leaves the
\* rest undone, and gone tells whether the process it was to end has ended
\* all the same.
stop_browser(s, fail_at, gone) ==
    LET closed == IF ~s.browser THEN s
                  ELSE IF fail_at = "browser_close"
                       THEN [s EXCEPT !.browser_up = ~gone]
                       ELSE [s EXCEPT !.browser = FALSE, !.browser_up = FALSE]
    IN  IF s.browser /\ fail_at = "browser_close" THEN closed
        ELSE IF ~closed.playwright THEN closed
        ELSE IF fail_at = "driver_stop" THEN [closed EXCEPT !.driver_up = ~gone]
        ELSE [closed EXCEPT !.playwright = FALSE, !.driver_up = FALSE]

\* Whether _stop_browser raises, so that the call ends by its exception.
stop_raises(s, fail_at) ==
    \/ s.browser /\ fail_at = "browser_close"
    \/ s.playwright /\ fail_at = "driver_stop"

\* How the try block of _scrape_from_webpage ends.
body_exit(tab_found, fail_at) ==
    IF fail_at \in {"driver_start", "launch"} \cup steps_reached(tab_found)
    THEN "exception"
    ELSE IF ~tab_found THEN "no_gold_tab"
    ELSE "normal"

NoWeb == [exit |-> "never", fail_at |-> "none", teardown |-> "none", raised |-> FALSE,
          calls |-> 0]

\* One call of _scrape_from_webpage, seen from the browser session: the try
\* block, then _stop_browser in the finally clause.
ScrapeWeb ==
    /\ lastWeb.calls < MaxCalls
    /\ \E tab_found \in BOOLEAN, fail_at \in BodySteps \cup {"none"},
          teardown \in TeardownSteps \cup {"none"}, gone \in BOOLEAN :
          LET started == start_browser(session, fail_at)
          IN  /\ session' = stop_browser(started, teardown, gone)
              /\ lastWeb' = [exit |-> body_exit(tab_found, fail_at),
                             fail_at |-> fail_at, teardown |-> teardown,
                             raised |-> stop_raises(started, teardown),
                             calls |-> lastWeb.calls + 1]
    /\ UNCHANGED <<syncVars, localVars, inflight, auxVars>>
    /\ UNCHANGED <<lastExchangeDom, lastGoldDom, lastHoliday>>

\* ----------------------------------------------------------- holiday calls
NoHoliday == [date |-> 0, ans |-> FALSE, asked |-> FALSE, oracle_ok |-> FALSE,
              trues |-> {}, calls |-> 0]

MaxChecks == 3

\* One call of is_public_holiday, for any date: asked tells whether the
\* oracle was queried, oracle_ok whether its lookup succeeded.
CheckHoliday ==
    /\ lastHoliday.calls < MaxChecks
    /\ \E check_date \in 1..MaxDay, oracle_ok \in BOOLEAN :
          LET h == is_public_holiday(check_date, oracle_ok)
              asked == ~was_holiday_checked(holiday_checked, check_date)
          IN  /\ holiday_checked' = h.checked
              /\ public_holidays' = h.cached
              /\ lastHoliday' = [date |-> check_date, ans |-> h.ans, asked |-> asked,
                                 oracle_ok |-> asked /\ oracle_ok,
                                 trues |-> IF h.ans THEN lastHoliday.trues \cup {check_date}
                                           ELSE lastHoliday.trues,
                                 calls |-> lastHoliday.calls + 1]
    /\ UNCHANGED <<syncVars, inflight, auxVars>>
    /\ UNCHANGED <<today, exchange_tbl, gold_tbl, scrape_runs, lastRun>>
    /\ UNCHANGED <<lastExchangeDom, lastGoldDom, session, lastWeb>>

\* ---------------------------------------------------------- specifications
Init ==
    /\ remote \in InitialCollections
    /\ pipeline_ids = {}
    /\ lastSync = NoCall
    /\ inflight = [p \in Procs |-> Idle]
    /\ today = 1
    /\ exchange_tbl = << >>
    /\ gold_tbl = << >>
    /\ scrape_runs = << >>
    /\ holiday_checked = {}
    /\ public_holidays = {}
    /\ lastRun = NoRun
    /\ lastExtract = NoExtract
    /\ redis = {}
    /\ lastInvalidate = NoInvalidate
    /\ lastRelevant = NoRelevant
    /\ lastUpsert = NoUpsert
    /\ lastExchangeDom = NoExchangeDom
    /\ lastGoldDom = NoGoldDom
    /\ session = NoSession
    /\ lastWeb = NoWeb
    /\ lastHoliday = NoHoliday

\* Callers calling the synchronizer one after the other.
Next == SyncCall

Spec == Init /\ [][Next]_vars

NextReliable == SyncCallReliable

SpecReliable == Init /\ [][NextReliable]_vars

NextGold == GoldSyncCall

SpecGold == Init /\ [][NextGold]_vars

\* Two invocations whose synchronizer steps interleave.
NextOverlap == \E p \in Procs : EnterSync(p) \/ ReadLatest(p) \/ InsertSnapshot(p)

SpecOverlap == Init /\ [][NextOverlap]_vars

\* Invocations of run(), one after the other, over the days.
NextRun == Run \/ NextDay

SpecRun == Init /\ [][NextRun]_vars

\* The first run that scrapes, and the runs skipped before it, over the days.
RunOnce == scrape_runs = << >> /\ Run

NextFirstRun == RunOnce \/ NextDay

SpecFirstRun == Init /\ [][NextFirstRun]_vars

\* Calls of the primary extraction.
NextExtract == Extract

SpecExtract == Init /\ [][NextExtract]_vars

\* Calls of the exchange row extraction.
NextExchangeDom == ExtractExchangeDom

SpecExchangeDom == Init /\ [][NextExchangeDom]_vars

\* Calls of the gold extractions.
NextGoldDom == ExtractGoldDom \/ ExtractGoldPdf

SpecGoldDom == Init /\ [][NextGoldDom]_vars

\* Calls of the primary extraction, seen from the browser session.
NextWeb == ScrapeWeb

SpecWeb == Init /\ [][NextWeb]_vars

\* Calls of the holiday check.
NextHoliday == CheckHoliday

SpecHoliday == Init /\ [][NextHoliday]_vars

\* Calls of the relevance check.
NextRelevant == CheckRelevant

SpecRelevant == Init /\ [][NextRelevant]_vars

\* The API server filling the cache, the pipeline invalidating it.
NextCache == CachePut \/ Invalidate

SpecCache == Init /\ [][NextCache]_vars

\* Callers upserting quotations into the local store.
NextStore == SaveExchange \/ SaveGold

SpecStore == Init /\ [][NextStore]_vars

\* ------------------------------------------------------------------ claims
Newest == remote[Len(remote)]

\* C1: two successive synchronizer calls with the identical exchange quotation
\* insert exactly one snapshot: after a call that inserted, a call with the
\* same quotation returns False and leaves the collection as it is.
C1_SecondCallSkipped ==
    [][(lastSync.why = "inserted" /\ lastSync'.ex = lastSync.ex)
          => (~lastSync'.ok /\ remote' = remote)]_vars

\* C2: no two snapshots inserted by the pipeline carry the same Date.
C2_NoDuplicateDates ==
    \A i \in pipeline_ids : \A j \in pipeline_ids :
        i # j => remote[i]["Date"] # remote[j]["Date"]

\* The derived fields a call recomputes: those whose inputs the gold quotation
\* supplies for the exchange date.
Recomputed(ex, gold) ==
    IF NonEmpty(gold) /\ Get(gold, "rate_date") = Get(ex, "rate_date")
    THEN {f \in {"Gold"} : Get(gold, "zwg") \notin {None, 0} /\ Get(gold, "usd") # None
                           /\ Get(gold, "usd") > 0}
         \cup {f \in {"eGold"} : Get(gold, "digital_token_zwg") \notin {None, 0}
                                 /\ Get(gold, "digital_token_usd") # None
                                 /\ Get(gold, "digital_token_usd") > 0}
    ELSE {}

OwnedFields == {"_id", "Date", "ZiG_Bid", "ZiG_Ask", "ZiG_Mid"}

\* C4: carry-forward.  Whenever a call inserts a snapshot while the collection
\* holds a current snapshot, every field of a current snapshot other than _id,
\* Date, the three ZiG fields and a ratio recomputed in the call is in the new
\* snapshot with the same value.
C4_CarryForward ==
    [][(remote' # remote /\ Len(remote) > 0)
          => \E cur \in get_latest_record(remote, TRUE) :
                \A k \in (DOMAIN cur \ OwnedFields) \ Recomputed(lastSync'.ex, lastSync'.gold) :
                    /\ k \in DOMAIN remote'[Len(remote')]
                    /\ remote'[Len(remote')][k] = cur[k]]_vars

\* C5: append-only.  Every step leaves the documents already present as they
\* are and adds at most one document after them.
C5_AppendOnly ==
    [][\/ remote' = remote
       \/ /\ Len(remote') = Len(remote) + 1
          /\ SubSeq(remote', 1, Len(remote)) = remote]_vars

\* A call has inserted a snapshot into a collection that already held one.
C5_Witness ==
    /\ lastSync.why = "inserted"
    /\ Len(remote) >= 2
    /\ Len(remote) \in pipeline_ids

RatioFields == {"Gold", "eGold"}

\* The field the last call's new record has is the one it read, or neither has it.
Kept(f) ==
    /\ (f \in DOMAIN Newest) = (f \in DOMAIN lastSync.latest)
    /\ Get(Newest, f) = Get(lastSync.latest, f)

\* C6: a gold quotation dated otherwise than the exchange quotation is not
\* blended: both ratio fields of the inserted snapshot are those carried
\* forward from the snapshot read (absent if none was), whatever its prices.
C6_GoldNotBlended ==
    (/\ lastSync.why = "inserted"
     /\ NonEmpty(lastSync.gold)
     /\ Get(lastSync.gold, "rate_date") # Get(lastSync.ex, "rate_date"))
    => \A f \in RatioFields : Kept(f)

\* A call inserted with a complete gold quotation of another date, after
\* reading a snapshot that had both ratios.
C6_Witness ==
    /\ lastSync.why = "inserted"
    /\ Get(lastSync.gold, "rate_date") \in Dates \ {Get(lastSync.ex, "rate_date")}
    /\ Get(lastSync.gold, "zwg") = 2 /\ Get(lastSync.gold, "usd") = 3
    /\ Get(lastSync.gold, "digital_token_zwg") = 3
    /\ Get(lastSync.gold, "digital_token_usd") = 2
    /\ NonEmpty(lastSync.latest)
    /\ Newest["Gold"] = 11 /\ Newest["eGold"] = 12

GoldDated ==
    /\ lastSync.why = "inserted"
    /\ NonEmpty(lastSync.gold)
    /\ Get(lastSync.gold, "rate_date") = Get(lastSync.ex, "rate_date")

\* What the claim says of one ratio field: computed when present(num, den)
\* holds, kept otherwise.
RatioRule(f, num, den, present) ==
    IF present
    THEN f \in DOMAIN Newest /\ Newest[f] = Round4(num, den)
    ELSE Kept(f) /\ Get(Newest, f) # 0

\* C7 as stated: with a gold quotation of the exchange date, each ratio is
\* overwritten with the computed one when both inputs are present and the
\* denominator is positive, and is otherwise left at the prior value.
C7_RatioWhenPresent ==
    GoldDated =>
        LET g == lastSync.gold
        IN  /\ RatioRule("Gold", Get(g, "zwg"), Get(g, "usd"),
                         Get(g, "zwg") # None /\ Get(g, "usd") # None /\ Get(g, "usd") > 0)
            /\ RatioRule("eGold", Get(g, "digital_token_zwg"), Get(g, "digital_token_usd"),
                         /\ Get(g, "digital_token_zwg") # None
                         /\ Get(g, "digital_token_usd") # None
                         /\ Get(g, "digital_token_usd") > 0)

\* C7 amended: a zero numerator counts as a missing input.  Each ratio is
\* overwritten when both inputs are present, the numerator is not zero and
\* the denominator is positive; otherwise the field is as carried forward.
C7_RatioWhenNonZero ==
    GoldDated =>
        LET g == lastSync.gold
        IN  /\ RatioRule("Gold", Get(g, "zwg"), Get(g, "usd"),
                         Get(g, "zwg") \notin {None, 0} /\ Get(g, "usd") # None
                         /\ Get(g, "usd") > 0)
            /\ RatioRule("eGold", Get(g, "digital_token_zwg"), Get(g, "digital_token_usd"),
                         /\ Get(g, "digital_token_zwg") \notin {None, 0}
                         /\ Get(g, "digital_token_usd") # None
                         /\ Get(g, "digital_token_usd") > 0)

\* A call computed the physical ratio 2/3 = 0.6667 and, the digital
\* denominator being zero, kept the digital ratio it read.
C7_Witness ==
    /\ GoldDated
    /\ Get(lastSync.gold, "zwg") = 2 /\ Get(lastSync.gold, "usd") = 3
    /\ Get(lastSync.gold, "digital_token_zwg") = 2
    /\ Get(lastSync.gold, "digital_token_usd") = 0
    /\ NonEmpty(lastSync.latest)
    /\ Newest["Gold"] = 6667 /\ Newest["eGold"] = 12

\* The snapshots of the collection dated d.
SnapshotsDated(d) == {i \in 1..Len(remote) : remote[i]["Date"] = d}

\* Both invocations have gone through update_fx_rates with rate_date d, and
\* no snapshot from before them is newer than d.
DoubleRunDone(d) ==
    /\ \A p \in Procs : inflight[p].pc = "done" /\ Get(inflight[p].ex, "rate_date") = d
    /\ \A i \in (1..Len(remote)) \ pipeline_ids : remote[i]["Date"] <= d

\* C3: a double run for the same date leaves exactly one snapshot of that
\* date: when two invocations have processed rate_date d, their read and
\* insert steps interleaved in any order, the collection holds one snapshot
\* dated d.
C3_DoubleRunOneSnapshot ==
    \A d \in Dates : DoubleRunDone(d) => Cardinality(SnapshotsDated(d)) = 1

IsAfterSync(e) == e \in {"notify", "invalidate"}

\* C8: in every run the notifier and the cache invalidation come only after
\* the synchronizer returned inserted in that run, and the run has added a
\* snapshot; a run whose synchronization was skipped, failed or not attempted
\* has neither.
C8_NotifyOnlyAfterInsert ==
    [][scrape_runs' # scrape_runs
          => LET e == lastRun'.events
             IN  \A i \in 1..Len(e) :
                    IsAfterSync(e[i])
                       => /\ lastRun'.sync = "inserted"
                          /\ Len(remote') = Len(remote) + 1
                          /\ \E j \in 1..(i - 1) : e[j] = "sync"]_vars

\* A run has inserted a snapshot, then notified and invalidated.
C8_Witness ==
    /\ lastRun.status = "completed"
    /\ lastRun.sync = "inserted"
    /\ \E i \in 1..Len(lastRun.events) : \E j \in 1..Len(lastRun.events) :
          /\ i < j
          /\ lastRun.events[i] = "notify"
          /\ lastRun.events[j] = "invalidate"

\* C9: every invocation of run() that ends (skipped for a non-business day,
\* skipped as already captured, or done after scraping) appends exactly one
\* run record.
C9_OneRunRecordPerRun ==
    [][today' = today => Len(scrape_runs') = Len(scrape_runs) + 1]_vars

\* Both kinds are stored for today.
HaveBoth == has_successful_gold_scrape(gold_tbl, today)
            /\ has_successful_exchange_scrape(exchange_tbl, today)

\* C10: on a business day, a run that is not forced and finds both kinds
\* stored for today ends as already scraped without extracting and without
\* writing; a run that is forced, or finds a kind missing, extracts.
C10_AlreadyCapturedCheck ==
    [][(today' = today /\ lastRun'.status # "skipped")
          => IF ~lastRun'.force /\ HaveBoth
             THEN /\ lastRun'.status = "already_scraped"
                  /\ lastRun'.events = << >>
                  /\ UNCHANGED <<exchange_tbl, gold_tbl, remote>>
             ELSE /\ lastRun'.status = "completed"
                  /\ lastRun'.events[1] = "extract"]_vars

\* A run that was not forced has found both kinds stored by an earlier run of
\* the day and stopped.
C10_Witness ==
    /\ lastRun.status = "already_scraped"
    /\ ~lastRun.force
    /\ lastRun.day = today
    /\ HaveBoth
    /\ Len(scrape_runs) >= 1

\* The day is a weekend day or a holiday held in the holiday cache.
NotBusinessDay == Weekday(today) >= 5 \/ today \in public_holidays

\* C11: a run on a weekend day or on a cached holiday, forced or not, ends as
\* skipped at once: no extraction, no local upsert, no synchronization,
\* notification or invalidation.
C11_NonBusinessDaySkipped ==
    [][(today' = today /\ NotBusinessDay)
          => /\ lastRun'.status = "skipped"
             /\ lastRun'.events = << >>
             /\ UNCHANGED <<exchange_tbl, gold_tbl, scrape_runs, remote, lastSync>>]_vars

\* A forced run has been skipped on a holiday held in the cache.
C11_Witness ==
    /\ lastRun.status = "skipped"
    /\ lastRun.force
    /\ lastRun.day = today
    /\ Weekday(today) < 5
    /\ today \in public_holidays

\* The run found an exchange quotation and no gold quotation on either path.
PartialRun(r) ==
    r.status = "completed" /\ NonEmpty(r.exchange) /\ ~NonEmpty(r.gold)

C14_MissingDateFallsBackToToday ==
    [][(scrape_runs' # scrape_runs /\ NonEmpty(lastRun'.exchange)
        /\ "rate_date" \notin DOMAIN lastRun'.exchange)
          => /\ has_successful_exchange_scrape(exchange_tbl', today)
             /\ lastSync'.why # "no_rate_date"
             /\ lastSync'.why = "inserted" => remote'[Len(remote')]["Date"] = today]_vars

\* C13: an exception in the gold step of the primary extraction (looking up
\* the tab, clicking it, reading the gold rows) costs the gold quotation
\* only: the exchange quotation already extracted is still returned.
C13_GoldFailureKeepsExchange ==
    (/\ lastExtract.fail_at \in {"tab", "click", "gold"}
     /\ lastExtract.fail_at \in steps_reached(lastExtract.tab_found)
     /\ NonEmpty(lastExtract.exchange))
    => lastExtract.result[1] = lastExtract.exchange

\* The key of the last relevance check names parameter n with a value (a
\* parameter given without a value is none for the URL parser).
Carries(n) ==
    /\ n \in DOMAIN lastRelevant.url.query
    /\ lastRelevant.url.query[n] # Blank

Param(n) == lastRelevant.url.query[n]

Checked == lastRelevant # NoRelevant

\* The key's range holds the target date, both ends being dates.
InRange ==
    /\ Param("from") \in KeyDates /\ Param("to") \in KeyDates
    /\ Param("from") <= lastRelevant.target_date
    /\ lastRelevant.target_date <= Param("to")

\* C15: a key that carries a day parameter is relevant to the target date if
\* and only if that day is the target date, whatever else the key carries.
C15_DayDecides ==
    (Checked /\ Carries("day"))
    => (lastRelevant.answer <=> Param("day") = lastRelevant.target_date)

\* C16 as stated: a key that carries a from/to pair is relevant if and only
\* if from <= D <= to.
C16_RangeDecides ==
    (Checked /\ Carries("from") /\ Carries("to")) => (lastRelevant.answer <=> InRange)

\* C16 amended: a key that carries a from/to pair and no day parameter is
\* relevant if and only if from <= D <= to, both bounds inclusive; a range
\* with from later than to is relevant to no date.
C16_RangeDecidesWithoutDay ==
    (Checked /\ Carries("from") /\ Carries("to") /\ ~Carries("day"))
    => (lastRelevant.answer <=> InRange)

\* A key with a range and no day was found relevant to the range's first day.
C16_Witness ==
    /\ Checked /\ Carries("from") /\ Carries("to") /\ ~Carries("day")
    /\ Param("from") = lastRelevant.target_date
    /\ Param("to") > Param("from")
    /\ lastRelevant.answer

\* C17: a key with none of the parameters day, from, to (no query string, or
\* other parameters only) is relevant to every target date.
C17_UndatedRelevant ==
    (Checked /\ DOMAIN lastRelevant.url.query \cap {"day", "from", "to"} = {})
    => lastRelevant.answer

\* A key with another parameter only was found relevant.
C17_Witness ==
    /\ Checked
    /\ DOMAIN lastRelevant.url.query = {"page"}
    /\ lastRelevant.answer

\* One of the key's date parameters is a text that is no date.
HasMalformed == \E n \in {"day", "from", "to"} : Carries(n) /\ Param(n) = Malformed

\* The key matches by its well-formed parameters.
WellFormedMatch ==
    \/ Carries("day") /\ Param("day") \in KeyDates
       /\ Param("day") = lastRelevant.target_date
    \/ Carries("from") /\ Carries("to") /\ InRange

RelevantKeys(keys, D) == {k \in keys : glob_match(k) /\ is_date_relevant(k, D)}

RowsOf(tbl, d) == {tbl[i] : i \in {j \in 1..Len(tbl) : tbl[j].rate_date = d}}

OtherRows(tbl, d) == {tbl[i] : i \in {j \in 1..Len(tbl) : tbl[j].rate_date # d}}

OneRowPerDate(tbl) ==
    \A i, j \in 1..Len(tbl) : tbl[i].rate_date = tbl[j].rate_date => i = j

\* The table an upsert wrote to, before and after it.
Upserted(t) == lastUpsert'.table = t

\* C20: each quotation table holds at most one row per rate_date, and an
\* upsert for date D leaves in its table, for D, a row of exactly the values
\* it supplied (a value it did not supply is null, not the earlier one),
\* leaves the rows of other dates as they were, and leaves the other table
\* alone.
C20_LastWriteWins ==
    [][/\ OneRowPerDate(exchange_tbl') /\ OneRowPerDate(gold_tbl')
       /\ Upserted("exchange")
          => /\ RowsOf(exchange_tbl', lastUpsert'.row.rate_date) = {lastUpsert'.row}
             /\ OtherRows(exchange_tbl', lastUpsert'.row.rate_date)
                = OtherRows(exchange_tbl, lastUpsert'.row.rate_date)
             /\ gold_tbl' = gold_tbl
       /\ Upserted("gold")
          => /\ RowsOf(gold_tbl', lastUpsert'.row.rate_date) = {lastUpsert'.row}
             /\ OtherRows(gold_tbl', lastUpsert'.row.rate_date)
                = OtherRows(gold_tbl, lastUpsert'.row.rate_date)
             /\ exchange_tbl' = exchange_tbl]_vars

\* The gold table holds a row for every date; the last upsert replaced a row
\* that held a token price by one that gives none, and the table holds none.
C20_Witness ==
    /\ lastUpsert.table = "gold"
    /\ Len(gold_tbl) = MaxDate
    /\ lastUpsert.was # NoDict
    /\ lastUpsert.was.digital_token_usd # None
    /\ lastUpsert.row.digital_token_usd = None
    /\ RowsOf(gold_tbl, lastUpsert.row.rate_date) = {lastUpsert.row}
    /\ Len(exchange_tbl) >= 1

\* The rows of the last page whose first cell names the pair and whose three
\* following cells are all numbers.
GoodRows ==
    {i \in 1..Len(lastExchangeDom.rows) :
        /\ lastExchangeDom.rows[i].named
        /\ \A c \in 1..3 : lastExchangeDom.rows[i].cells[c] # NotANumber}

FirstGoodRow == lastExchangeDom.rows[CHOOSE i \in GoodRows : \A j \in GoodRows : i <= j]

\* C21: the bid, ask and mid returned are those of the first row in document
\* order that names the pair and has three numeric cells, and the result is
\* null when the page has no such row.
C21_FirstWholeRow ==
    lastExchangeDom.called
    => IF GoodRows = {} THEN lastExchangeDom.result = NoDict
       ELSE /\ {"bid", "ask", "avg"} \subseteq DOMAIN lastExchangeDom.result
            /\ lastExchangeDom.result["bid"] = FirstGoodRow.cells[1]
            /\ lastExchangeDom.result["ask"] = FirstGoodRow.cells[2]
            /\ lastExchangeDom.result["avg"] = FirstGoodRow.cells[3]

GoldExtracted == lastGoldDom.path # "none"

\* C22: a gold quotation returned by the page extraction or by the PDF
\* extraction holds at least one per-currency price; an extraction that
\* found none returns null.
C22_GoldHasAPrice ==
    (GoldExtracted /\ NonEmpty(lastGoldDom.result))
    => DOMAIN lastGoldDom.result \cap PriceKeys # {}

\* C23: a gold quotation returned by an extraction holds both digital-token
\* prices or neither.
C23_TokenPricesPaired ==
    GoldExtracted
    => ("digital_token_usd" \in DOMAIN lastGoldDom.result
        <=> "digital_token_zwg" \in DOMAIN lastGoldDom.result)

\* C24: after every return of _scrape_from_webpage, however it ends, the
\* browser and the driver have been shut down and the scraper holds no
\* handle to either.
C24_SessionTornDown ==
    lastWeb.calls > 0 => session = NoSession

\* A run that scraped while the remote store could not be reached.
UnreachableRun == scrape_runs' # scrape_runs /\ ~lastRun'.remote_up

\* C25: when the remote store cannot be reached during a run, the
\* synchronization is skipped without raising: nothing is inserted, nobody is
\* notified and nothing invalidated, the quotations of the run are in the
\* local store, and the run writes its run record and completes.
C25_UnreachableRemoteIsNoOp ==
    [][UnreachableRun
       => /\ remote' = remote
          /\ pipeline_ids' = pipeline_ids
          /\ lastRun'.sync = "connect_failed"
          /\ \A j \in 1..Len(lastRun'.events) :
                lastRun'.events[j] \notin {"notify", "invalidate"}
          /\ lastRun'.invalidated = None
          /\ \E i \in 1..Len(exchange_tbl') :
                /\ exchange_tbl'[i].rate_date = rate_date_or(lastRun'.exchange, today)
                /\ exchange_tbl'[i].bid = lastRun'.exchange["bid"]
          /\ NonEmpty(lastRun'.gold)
             => \E i \in 1..Len(gold_tbl') :
                   gold_tbl'[i].rate_date = rate_date_or(lastRun'.gold, today)
          /\ lastRun'.status = "completed"
          /\ scrape_runs' = Append(scrape_runs,
                                   [run_date |-> today,
                                    gold_success |-> NonEmpty(lastRun'.gold),
                                    exchange_success |-> TRUE])]_vars

\* A run upserted both quotations and completed although the remote store
\* could not be reached.
C25_Witness ==
    /\ lastRun.status = "completed"
    /\ ~lastRun.remote_up
    /\ lastRun.sync = "connect_failed"
    /\ Len(exchange_tbl) = 1 /\ Len(gold_tbl) = 1
    /\ Len(scrape_runs) = 1
    /\ pipeline_ids = {}

\* C26: a call inserts a snapshot only when the collection is empty or its
\* latest Date is earlier than the quotation's rate_date: the snapshot
\* inserted is dated after every snapshot the collection held, and is the
\* collection's current snapshot afterwards.
C26_InsertedIsNewest ==
    [][remote' # remote
       => /\ \A i \in 1..Len(remote) :
                remote[i]["Date"] < remote'[Len(remote')]["Date"]
          /\ get_latest_record(remote', TRUE) = {remote'[Len(remote')]}]_vars

\* The last run, made today, captured an exchange and a gold quotation.
CapturedBothToday ==
    /\ lastRun.status = "completed"
    /\ lastRun.day = today
    /\ NonEmpty(lastRun.exchange)
    /\ NonEmpty(lastRun.gold)

\* C27: after a run of today that captured both quotations, a run of the
\* same day without force is skipped as already captured and extracts
\* nothing, whatever rate date the quotations carried.
C27_SameDayRunSkipped ==
    [][(CapturedBothToday /\ today' = today /\ ~lastRun'.force)
       => (lastRun'.status = "already_scraped" /\ lastRun'.events = << >>)]_vars

\* C28: a run that inserted a snapshot dated D invalidates the cache for that
\* same date D, also when D is not the day of the run.
C28_InvalidatesSnapshotDate ==
    lastRun.sync = "inserted"
    => /\ lastRun.invalidated # None
       /\ lastRun.invalidated = remote[Len(remote)]["Date"]

\* C29: a date for which is_public_holiday has answered true is answered
\* true by every later call, whatever dates were checked in between.
C29_HolidayAnswersStable ==
    [][lastHoliday'.date \in lastHoliday.trues => lastHoliday'.ans]_vars

\* C30: after a call whose lookup failed, the next call for the same date
\* queries the oracle again.
C30_FailedLookupAskedAgain ==
    [][(/\ lastHoliday.asked /\ ~lastHoliday.oracle_ok
        /\ lastHoliday'.date = lastHoliday.date)
       => lastHoliday'.asked]_vars

====
